---- MODULE Spec2Model ----
(***************************************************************************)
(* django-smart-lists: the sort-token state machine (SmartOrder), the      *)
(* query-string builder (QueryParamsMixin) and the filter options          *)
(* (SmartFilter / SmartFilterValue) of smart_lists/helpers.py.             *)
(*                                                                         *)
(* Python values are tagged records:                                       *)
(*   str  -> [t |-> "str",  v |-> sequence of one-character strings]      *)
(*   int  -> [t |-> "int",  v |-> n]                                      *)
(*   None -> [t |-> "none", v |-> 0]                                      *)
(*   list -> [t |-> "list", v |-> sequence of character sequences]        *)
(* A dict is a sequence of <<key, value>> pairs in insertion order, keys   *)
(* being character sequences.  A raised exception is the value Error.      *)
(***************************************************************************)
EXTENDS Integers, Sequences, FiniteSets, TLC

\* Number of display columns of the list (column ids are 1..NumColumns).
NumColumns == 3

ColumnIds == 1..NumColumns

----------------------------------------------------------------------------
(* Python values *)

PyString(s) == [t |-> "str", v |-> s]
PyInt(n) == [t |-> "int", v |-> n]
PyNone == [t |-> "none", v |-> 0]
PyList(l) == [t |-> "list", v |-> l]

\* A raised exception (no value is returned).
Error == <<"ERROR">>

\* Python's == between the values above: values of different types differ.
PyEq(a, b) == a.t = b.t /\ a.v = b.v

\* Python truthiness of a str-or-None value ("if self.query_order").
Truthy(x) == x.t = "str" /\ Len(x.v) > 0

----------------------------------------------------------------------------
(* str methods and conversions *)

DigitChars == <<"0", "1", "2", "3", "4", "5", "6", "7", "8", "9">>

IsDigit(c) == \E i \in 1..Len(DigitChars) : DigitChars[i] = c

DigitVal(c) == (CHOOSE i \in 1..Len(DigitChars) : DigitChars[i] = c) - 1

\* str(n) / '{}'.format(n) for an int n >= 0.
RECURSIVE IntToStr(_)
IntToStr(n) ==
    IF n < 10 THEN <<DigitChars[n + 1]>>
    ELSE IntToStr(n \div 10) \o <<DigitChars[(n % 10) + 1]>>

\* int(s) succeeds on a non-empty string of decimal digits.
IsIntLiteral(s) == Len(s) > 0 /\ \A i \in 1..Len(s) : IsDigit(s[i])

RECURSIVE StrToInt(_)
StrToInt(s) ==
    IF Len(s) = 0 THEN 0
    ELSE StrToInt(SubSeq(s, 1, Len(s) - 1)) * 10 + DigitVal(s[Len(s)])

\* s.replace(ch, "")
RECURSIVE RemoveChar(_, _)
RemoveChar(s, ch) ==
    IF Len(s) = 0 THEN <<>>
    ELSE IF Head(s) = ch THEN RemoveChar(Tail(s), ch)
    ELSE <<Head(s)>> \o RemoveChar(Tail(s), ch)

\* s.split(sep): "" splits into [""], "a..b" into ["a", "", "b"].
RECURSIVE SplitAcc(_, _, _)
SplitAcc(s, sep, cur) ==
    IF Len(s) = 0 THEN <<cur>>
    ELSE IF Head(s) = sep THEN <<cur>> \o SplitAcc(Tail(s), sep, <<>>)
    ELSE SplitAcc(Tail(s), sep, Append(cur, Head(s)))

Split(s, sep) == SplitAcc(s, sep, <<>>)

\* sep.join(parts)
RECURSIVE Join(_, _)
Join(sep, parts) ==
    IF Len(parts) = 0 THEN <<>>
    ELSE IF Len(parts) = 1 THEN parts[1]
    ELSE parts[1] \o <<sep>> \o Join(sep, Tail(parts))

StartsWith(s, ch) == Len(s) > 0 /\ s[1] = ch

\* str(value) as urlencode applies it to a str or an int.
PyStr(x) == IF x.t = "int" THEN IntToStr(x.v) ELSE x.v

----------------------------------------------------------------------------
(* dict operations; a dict is a sequence of <<key, value>> pairs *)

DictHas(d, k) == \E i \in 1..Len(d) : d[i][1] = k

DictIndex(d, k) == CHOOSE i \in 1..Len(d) : d[i][1] = k

\* d.get(k): None when the key is absent.
DictGet(d, k) == IF DictHas(d, k) THEN d[DictIndex(d, k)][2] ELSE PyNone

\* d.update({k: v}): an existing key keeps its position.
DictUpdate(d, k, v) ==
    IF DictHas(d, k)
    THEN [i \in 1..Len(d) |-> IF d[i][1] = k THEN <<k, v>> ELSE d[i]]
    ELSE Append(d, <<k, v>>)

DictKeys(d) == {d[i][1] : i \in 1..Len(d)}

----------------------------------------------------------------------------
(* django.utils.http.urlencode as used by get_url_with_query_params *)

SafeChars ==
    {"a", "b", "c", "o", "q", "s", "t", "u", "x", "y", "_", ".", "-", "~"}

\* quote_plus of one character: letters, digits and "_.-~" are kept, a
\* space becomes "+", anything else its %XX escape.
QuoteChar(c) ==
    IF IsDigit(c) \/ c \in SafeChars THEN <<c>>
    ELSE IF c = " " THEN <<"+">>
    ELSE IF c = "&" THEN <<"%", "2", "6">>
    ELSE IF c = "=" THEN <<"%", "3", "D">>
    ELSE IF c = "+" THEN <<"%", "2", "B">>
    ELSE IF c = "%" THEN <<"%", "2", "5">>
    ELSE <<"%", "3", "F">>

RECURSIVE QuotePlus(_)
QuotePlus(s) ==
    IF Len(s) = 0 THEN <<>> ELSE QuoteChar(Head(s)) \o QuotePlus(Tail(s))

RECURSIVE UrlEncode(_)
UrlEncode(d) ==
    IF Len(d) = 0 THEN <<>>
    ELSE QuotePlus(d[1][1]) \o <<"=">> \o QuotePlus(PyStr(d[1][2]))
         \o (IF Len(d) = 1 THEN <<>> ELSE <<"&">> \o UrlEncode(Tail(d)))

----------------------------------------------------------------------------
(* QueryParamsMixin *)

\* "for key, value in query.items(): if type(value) == list:
\*      query[key] = value[0]"; value[0] of an empty list raises IndexError.
CollapseFails(d) ==
    \E i \in 1..Len(d) : d[i][2].t = "list" /\ Len(d[i][2].v) = 0

\* Mutant: a list is collapsed to its last element (value[-1]).
CollapseLists_TakesLast(d) ==
    [i \in 1..Len(d) |->
        IF d[i][2].t = "list"
        THEN <<d[i][1], PyString(d[i][2].v[Len(d[i][2].v)])>>
        ELSE d[i]]

CollapseLists(d) ==
    [i \in 1..Len(d) |->
        IF d[i][2].t = "list" THEN <<d[i][1], PyString(d[i][2].v[1])>>
        ELSE d[i]]

\* "for key, value in query.copy().items(): if value is None: del query[key]"
RECURSIVE DropNone(_)
DropNone(d) ==
    IF Len(d) = 0 THEN <<>>
    ELSE IF d[1][2].t = "none" THEN DropNone(Tail(d))
    ELSE <<d[1]>> \o DropNone(Tail(d))

\* Mutant: a None override is kept as an empty value instead of deleted.
get_url_with_query_params_KeepsEmpty(query_params, key, value) ==
    IF CollapseFails(query_params) THEN Error
    ELSE <<"?">> \o UrlEncode(DictUpdate(CollapseLists(query_params), key,
                IF value.t = "none" THEN PyString(<<>>) ELSE value))

\* The dict that get_url_with_query_params hands to urlencode.
NewQuery(query_params, key, value) ==
    DropNone(DictUpdate(CollapseLists(query_params), key, value))

\* get_url_with_query_params(self, {key: value})
get_url_with_query_params(query_params, key, value) ==
    IF CollapseFails(query_params) THEN Error
    ELSE <<"?">> \o UrlEncode(NewQuery(query_params, key, value))

----------------------------------------------------------------------------
(* SmartOrder *)

\* ordering_query_param: the template tag's default.
OrderingParam == <<"o">>

\* self.query_order = query_params.get(ordering_query_param)
query_order(query_params) == DictGet(query_params, OrderingParam)

\* The dot-separated elements the methods iterate over.
OrderElements(query_params) == Split(query_order(query_params).v, ".")

\* int(column.replace("-", "")) raises ValueError on a non-numeric element.
ElementId(column) == StrToInt(RemoveChar(column, "-"))

\* SmartOrder.__init__ raises when the token is a list (no str.replace) or
\* holds a non-numeric segment.
InitFails(query_params) ==
    LET q == query_order(query_params)
        cols == Split(RemoveChar(q.v, "-"), ".")
    IN  \/ q.t = "list" /\ Len(q.v) > 0
        \/ Truthy(q) /\ \E i \in 1..Len(cols) : ~IsIntLiteral(cols[i])

\* self.current_columns
current_columns(query_params) ==
    LET q == query_order(query_params)
    IN  IF Truthy(q)
        THEN LET cols == Split(RemoveChar(q.v, "-"), ".")
             IN  [i \in 1..Len(cols) |-> StrToInt(cols[i])]
        ELSE <<>>

current_columns_length(query_params) == Len(current_columns(query_params))

is_ordered(query_params, column_id) ==
    LET cols == current_columns(query_params)
    IN  \E i \in 1..Len(cols) : cols[i] = column_id

\* priority: list.index(column_id) + 1, None when the column is not ordered.
priority(query_params, column_id) ==
    LET cols == current_columns(query_params)
    IN  IF is_ordered(query_params, column_id)
        THEN PyInt(CHOOSE i \in 1..Len(cols) :
                      /\ cols[i] = column_id
                      /\ \A j \in 1..(i - 1) : cols[j] # column_id)
        ELSE PyNone

\* The walks over self.query_order.split('.') raise when the token is None
\* (no split), a list, or empty (int('') is a ValueError).
WalkFails(query_params) ==
    \/ InitFails(query_params)
    \/ ~Truthy(query_order(query_params))

\* is_reverse, where the walk does not raise.
is_reverse(query_params, column_id) ==
    LET cols == OrderElements(query_params)
    IN  \E i \in 1..Len(cols) :
            ElementId(cols[i]) = column_id /\ StartsWith(cols[i], "-")

\* Mutant: the kept elements lose their sign (c appended, not column).
RECURSIVE WithoutColumn_DropsSigns(_, _)
WithoutColumn_DropsSigns(cols, column_id) ==
    IF Len(cols) = 0 THEN <<>>
    ELSE IF ElementId(Head(cols)) # column_id
         THEN <<RemoveChar(Head(cols), "-")>>
              \o WithoutColumn_DropsSigns(Tail(cols), column_id)
         ELSE WithoutColumn_DropsSigns(Tail(cols), column_id)

\* Mutant: the "not" of "if not int(c) == self.column_id" is missing, so
\* only the elements of column_id are kept.
RECURSIVE WithoutColumn_KeepsOnlyColumn(_, _)
WithoutColumn_KeepsOnlyColumn(cols, column_id) ==
    IF Len(cols) = 0 THEN <<>>
    ELSE IF ElementId(Head(cols)) = column_id
         THEN <<Head(cols)>>
              \o WithoutColumn_KeepsOnlyColumn(Tail(cols), column_id)
         ELSE WithoutColumn_KeepsOnlyColumn(Tail(cols), column_id)

\* new_query of get_add_sort_by / get_remove_sort_by: the elements other
\* than column_id.
RECURSIVE WithoutColumn(_, _)
WithoutColumn(cols, column_id) ==
    IF Len(cols) = 0 THEN <<>>
    ELSE IF ElementId(Head(cols)) # column_id
         THEN <<Head(cols)>> \o WithoutColumn(Tail(cols), column_id)
         ELSE WithoutColumn(Tail(cols), column_id)

\* Mutant: the matching element always gets a "-", an existing one is
\* never stripped.
ReversedColumns_NeverStrips(cols, column_id) ==
    [i \in 1..Len(cols) |->
        IF ElementId(cols[i]) = column_id
        THEN <<"-">> \o RemoveChar(cols[i], "-")
        ELSE cols[i]]

\* new_query of get_reverse_sort_by: the matching element's sign toggled.
ReversedColumns(cols, column_id) ==
    [i \in 1..Len(cols) |->
        IF ElementId(cols[i]) = column_id
        THEN IF StartsWith(cols[i], "-")
             THEN RemoveChar(cols[i], "-")
             ELSE <<"-">> \o RemoveChar(cols[i], "-")
        ELSE cols[i]]

get_reverse_sort_by(query_params, column_id) ==
    IF WalkFails(query_params) THEN Error
    ELSE get_url_with_query_params(query_params, OrderingParam,
            PyString(Join(".", ReversedColumns(OrderElements(query_params),
                                               column_id))))

\* Mutant: an empty remainder is passed as None, which deletes the key.
get_remove_sort_by_ClearsEmpty(query_params, column_id) ==
    IF WalkFails(query_params) THEN Error
    ELSE LET rest == Join(".", WithoutColumn(OrderElements(query_params),
                                             column_id))
         IN  get_url_with_query_params(query_params, OrderingParam,
                IF Len(rest) = 0 THEN PyNone ELSE PyString(rest))

get_remove_sort_by(query_params, column_id) ==
    IF WalkFails(query_params) THEN Error
    ELSE get_url_with_query_params(query_params, OrderingParam,
            PyString(Join(".", WithoutColumn(OrderElements(query_params),
                                             column_id))))

\* Mutant: the test that the column is the primary one is missing.
PrimaryAscending_AnyPosition(query_params, column_id) ==
    ~is_reverse(query_params, column_id)

\* Mutant: the "not" before is_reverse() is missing.
PrimaryAscending_Inverted(query_params, column_id) ==
    /\ is_reverse(query_params, column_id)
    /\ current_columns(query_params)[1] = column_id

\* "if not self.is_reverse() and self.current_columns[0] == self.column_id"
PrimaryAscending(query_params, column_id) ==
    /\ ~is_reverse(query_params, column_id)
    /\ current_columns(query_params)[1] = column_id

\* Mutant: the column is put first without being removed from its old
\* position.
PromotedToken_KeepsOld(query_params, column_id) ==
    IF PrimaryAscending(query_params, column_id)
    THEN <<"-">> \o IntToStr(column_id) \o <<".">>
         \o query_order(query_params).v
    ELSE IntToStr(column_id) \o <<".">> \o query_order(query_params).v

\* The token of the "current_columns_length > 1" branch.
PromotedToken(query_params, column_id) ==
    LET rest == Join(".", WithoutColumn(OrderElements(query_params),
                                        column_id))
    IN  IF PrimaryAscending(query_params, column_id)
        THEN <<"-">> \o IntToStr(column_id) \o <<".">> \o rest
        ELSE IntToStr(column_id) \o <<".">> \o rest

\* Mutant: the new column is appended to the token instead of prepended.
PrependedToken_Appends(query_params, column_id) ==
    IF Truthy(query_order(query_params))
    THEN PyString(query_order(query_params).v \o <<".">>
                  \o IntToStr(column_id))
    ELSE PyInt(column_id)

\* The value of the "not self.is_ordered()" branch.
PrependedToken(query_params, column_id) ==
    IF Truthy(query_order(query_params))
    THEN PyString(IntToStr(column_id) \o <<".">>
                  \o query_order(query_params).v)
    ELSE PyInt(column_id)

get_add_sort_by(query_params, column_id) ==
    IF InitFails(query_params) THEN Error
    ELSE IF ~is_ordered(query_params, column_id)
    THEN get_url_with_query_params(query_params, OrderingParam,
            PrependedToken(query_params, column_id))
    ELSE IF current_columns_length(query_params) > 1
    THEN get_url_with_query_params(query_params, OrderingParam,
            PyString(PromotedToken(query_params, column_id)))
    ELSE get_reverse_sort_by(query_params, column_id)

----------------------------------------------------------------------------
(* SmartFilter / SmartFilterValue *)

\* The filter field of the list: an enumerated-choice model field.
FilterField == <<"s", "t", "a", "t", "u", "s">>

\* model_field.choices of that field: (value, label) pairs.
FilterChoices == <<<<PyInt(1), "Open">>, <<PyInt(2), "Closed">>>>

SmartFilterValue(field_name, label, value) ==
    [field_name |-> field_name, label |-> label, value |-> value]

\* SmartFilter.get_values: the "All" option, then one option per choice.
get_values ==
    <<SmartFilterValue(FilterField, "All", PyNone)>>
    \o [i \in 1..Len(FilterChoices) |->
            SmartFilterValue(FilterField, FilterChoices[i][2],
                             FilterChoices[i][1])]

\* SmartFilterValue.get_url
get_url(option, query_params) ==
    get_url_with_query_params(query_params, option.field_name, option.value)

\* is_active raises IndexError on "selected_value[0]" of an empty list.
is_active_raises(option, query_params) ==
    /\ DictHas(query_params, option.field_name)
    /\ DictGet(query_params, option.field_name).t = "list"
    /\ Len(DictGet(query_params, option.field_name).v) = 0

\* The value is_active compares with self.value.
selected_value(option, query_params) ==
    LET stored == DictGet(query_params, option.field_name)
    IN  IF stored.t = "list" THEN PyString(stored.v[1]) ELSE stored

\* Mutant: an option whose value is None is active whatever the request.
is_active_NoneAlways(option, query_params) ==
    \/ option.value.t = "none"
    \/ /\ DictHas(query_params, option.field_name)
       /\ PyEq(selected_value(option, query_params), option.value)

\* SmartFilterValue.is_active, where it does not raise.
is_active(option, query_params) ==
    IF DictHas(query_params, option.field_name)
    THEN PyEq(selected_value(option, query_params), option.value)
    ELSE option.value.t = "none"

----------------------------------------------------------------------------
(* The request that follows a generated link: the HTTP layer decodes the   *)
(* query string into the next request's query parameters.                  *)

UnquoteTable ==
    <<<<"2", "6", "&">>, <<"3", "D", "=">>, <<"2", "B", "+">>,
      <<"2", "5", "%">>, <<"3", "F", "?">>>>

RECURSIVE UnquotePlus(_)
UnquotePlus(s) ==
    IF Len(s) = 0 THEN <<>>
    ELSE IF Head(s) = "+" THEN <<" ">> \o UnquotePlus(Tail(s))
    ELSE IF Head(s) = "%" /\ Len(s) >= 3
         /\ \E i \in 1..Len(UnquoteTable) :
                UnquoteTable[i][1] = s[2] /\ UnquoteTable[i][2] = s[3]
    THEN <<UnquoteTable[CHOOSE i \in 1..Len(UnquoteTable) :
                UnquoteTable[i][1] = s[2] /\ UnquoteTable[i][2] = s[3]][3]>>
         \o UnquotePlus(SubSeq(s, 4, Len(s)))
    ELSE <<Head(s)>> \o UnquotePlus(Tail(s))

\* One "key=value" pair, split at its first "=".
ParsePair(p) ==
    LET parts == Split(p, "=")
    IN  <<UnquotePlus(parts[1]),
          PyString(UnquotePlus(Join("=", Tail(parts))))>>

\* The query parameters of the request for the link "?k=v&k=v".
ParseQuery(url) ==
    LET body == Tail(url)
        pairs == Split(body, "&")
    IN  IF Len(body) = 0 THEN <<>>
        ELSE [i \in 1..Len(pairs) |-> ParsePair(pairs[i])]

----------------------------------------------------------------------------
(* Requests: the query parameters a first request can carry *)

\* Ordered lists of distinct column ids, each with a direction
\* (TRUE = descending).
SortLists ==
    UNION {{l \in [1..n -> ColumnIds \X BOOLEAN] :
                \A i, j \in 1..n : i # j => l[i][1] # l[j][1]} :
           n \in 1..NumColumns}

\* The sort token of a sort list: "2.-1.3".
TokenOf(l) ==
    Join(".", [i \in 1..Len(l) |->
                  (IF l[i][2] THEN <<"-">> ELSE <<>>) \o IntToStr(l[i][1])])

SearchParam == <<"q">>

\* The parameters besides the sort parameter: none, a filter value, a
\* repeated filter key next to a search text, an empty value list.
OtherParams ==
    { <<>>,
      <<<<FilterField, PyString(<<"2">>)>>>>,
      <<<<SearchParam, PyString(<<"a", " ", "b", "&", "c">>)>>,
        <<FilterField, PyList(<<<<"2">>, <<"1">>>>)>>>>,
      <<<<FilterField, PyList(<<>>)>>>> }

\* The sort parameter: absent, empty, or a well-formed token.
SortParams ==
    {<<>>, <<<<OrderingParam, PyString(<<>>)>>>>}
    \cup {<<<<OrderingParam, PyString(TokenOf(l))>>>> : l \in SortLists}

----------------------------------------------------------------------------
(* str.title and str.replace *)

LowerCase ==
    <<"a", "b", "c", "d", "e", "f", "g", "h", "i", "j", "k", "l", "m",
      "n", "o", "p", "q", "r", "s", "t", "u", "v", "w", "x", "y", "z">>

UpperCase ==
    <<"A", "B", "C", "D", "E", "F", "G", "H", "I", "J", "K", "L", "M",
      "N", "O", "P", "Q", "R", "S", "T", "U", "V", "W", "X", "Y", "Z">>

IsLower(ch) == \E i \in 1..Len(LowerCase) : LowerCase[i] = ch

IsUpper(ch) == \E i \in 1..Len(UpperCase) : UpperCase[i] = ch

\* A cased character: one that has an upper and a lower form.
IsCased(ch) == IsLower(ch) \/ IsUpper(ch)

ToUpper(ch) ==
    IF IsLower(ch)
    THEN UpperCase[CHOOSE i \in 1..Len(LowerCase) : LowerCase[i] = ch]
    ELSE ch

ToLower(ch) ==
    IF IsUpper(ch)
    THEN LowerCase[CHOOSE i \in 1..Len(UpperCase) : UpperCase[i] = ch]
    ELSE ch

\* s.title(): a cased character is upper-cased when the character before
\* it is not cased (or there is none) and lower-cased otherwise; any other
\* character, "_" and " " among them, is kept.
Title(s) ==
    [i \in 1..Len(s) |->
        IF i > 1 /\ IsCased(s[i - 1]) THEN ToLower(s[i]) ELSE ToUpper(s[i])]

\* s.replace(old, new) for single characters.
Replace(s, old, new) ==
    [i \in 1..Len(s) |-> IF s[i] = old THEN new ELSE s[i]]

----------------------------------------------------------------------------
(* The model class of the object list: what model._meta.get_field and     *)
(* getattr(model, name) find.  An absent hint is the empty string (the    *)
(* hints are read with "getattr(field, hint, False)").                    *)

Attribute(name, is_field, verbose, is_callable, short, order_by, alters) ==
    [name |-> name, is_field |-> is_field, verbose_name |-> verbose,
     is_callable |-> is_callable, short_description |-> short,
     admin_order_field |-> order_by, alters_data |-> alters]

StrName == <<"_", "_", "s", "t", "r", "_", "_">>

DueOnField == <<"d", "u", "e", "_", "o", "n">>

\* model._meta.verbose_name
MetaVerboseName == <<"w", "o", "r", "k", " ", "i", "t", "e", "m">>

\* A name that is neither a field nor an attribute of the model: a column
\* of a .values() or annotated query set.
AnnotatedName == <<"n", "_", "s", "u", "b", "s">>

ModelAttributes ==
    { \* two model fields
      Attribute(FilterField, TRUE, FilterField, FALSE, <<>>, <<>>, FALSE),
      Attribute(DueOnField, TRUE, <<"d", "u", "e", " ", "o", "n">>, FALSE,
                <<>>, <<>>, FALSE),
      \* methods: plain, with short_description, with admin_order_field,
      \* with alters_data
      Attribute(StrName, FALSE, <<>>, TRUE, <<>>, <<>>, FALSE),
      Attribute(<<"i", "s", "_", "l", "a", "t", "e">>, FALSE, <<>>, TRUE,
                <<>>, <<>>, FALSE),
      Attribute(<<"a", "g", "e">>, FALSE, <<>>, TRUE,
                <<"a", "g", "e", " ", "(", "d", ")">>, <<>>, FALSE),
      Attribute(<<"r", "a", "n", "k">>, FALSE, <<>>, TRUE, <<>>,
                <<"s", "c", "o", "r", "e">>, FALSE),
      Attribute(<<"d", "e", "l", "e", "t", "e">>, FALSE, <<>>, TRUE, <<>>,
                <<>>, TRUE),
      \* attributes that are not callable
      Attribute(<<"p", "k">>, FALSE, <<>>, FALSE, <<>>, <<>>, FALSE),
      Attribute(<<"_", "m", "e", "t", "a">>, FALSE, <<>>, FALSE, <<>>, <<>>,
                FALSE) }

\* The names a list_display is made of.
FieldNames == {a.name : a \in ModelAttributes} \cup {AnnotatedName}

\* getattr(model, name) does not raise AttributeError.
HasAttr(name) == \E a \in ModelAttributes : a.name = name

GetAttr(name) == CHOOSE a \in ModelAttributes : a.name = name

\* model._meta.get_field(name) does not raise FieldDoesNotExist.
IsModelField(name) == HasAttr(name) /\ GetAttr(name).is_field

----------------------------------------------------------------------------
(* SmartColumn, SmartList *)

\* An exception raised by a constructor: no object is returned.
Raised(kind) == [raised |-> kind]

\* The order_field SmartColumn.__init__ ends with when it does not raise;
\* the empty string stands for None.
order_field(field) ==
    IF IsModelField(field) THEN field
    ELSE IF ~HasAttr(field) THEN field
    ELSE IF GetAttr(field).is_callable
            /\ Len(GetAttr(field).admin_order_field) > 0
         THEN GetAttr(field).admin_order_field
    ELSE <<>>

\* 'self.field_name.startswith("_") and self.field_name != "__str__"'
IsPrivate(field) == StartsWith(field, "_") /\ field # StrName

\* 'callable(field) and getattr(field, "alters_data", False)', reached when
\* the name is not a model field and getattr finds it.
AltersData(field) ==
    /\ ~IsModelField(field)
    /\ HasAttr(field)
    /\ GetAttr(field).is_callable
    /\ GetAttr(field).alters_data

\* SmartColumn(model, field, column_id, query_params, ordering_query_param):
\* the column, or the exception of the name checks or of the SmartOrder
\* that is built for a column with an order_field.
SmartColumn(field, column_id, params) ==
    IF IsPrivate(field) \/ AltersData(field)
    THEN Raised("SmartListException")
    ELSE IF Len(order_field(field)) > 0 /\ InitFails(params)
    THEN Raised(IF query_order(params).t = "list" THEN "AttributeError"
                ELSE "ValueError")
    ELSE [raised |-> "",
          field_name |-> field,
          model_field |-> IsModelField(field),
          order_field |-> order_field(field),
          column_id |-> column_id,
          has_order |-> Len(order_field(field)) > 0]

\* The constructor returned a column.
IsBuilt(column) == column.raised = ""

\* Mutant: a column whose constructor raises is left out of the list.
SmartList_OmitsFailing(display, params) ==
    LET made == [i \in 1..Len(display) |->
                    SmartColumn(display[i], i, params)]
        kept == SelectSeq(made, IsBuilt)
    IN  [raised |-> "",
         columns |-> IF Len(kept) = 0
                     THEN <<SmartColumn(StrName, 1, params)>>
                     ELSE kept]

\* SmartList.__init__: self.columns.  The columns are built in the order of
\* list_display, column ids from 1, and the first exception ends the
\* construction; an empty list_display gives the one column "__str__".
SmartList(display, params) ==
    LET made == [i \in 1..Len(display) |->
                    SmartColumn(display[i], i, params)]
        failed == {i \in 1..Len(display) : ~IsBuilt(made[i])}
    IN  IF failed # {}
        THEN [raised |-> made[CHOOSE i \in failed :
                                 \A j \in failed : i <= j].raised,
              columns |-> <<>>]
        ELSE IF Len(display) = 0
        THEN [raised |-> "", columns |-> <<SmartColumn(StrName, 1, params)>>]
        ELSE [raised |-> "", columns |-> made]

\* TitleFromModelFieldMixin.get_title of a column.
get_title(column) ==
    IF column.model_field
    THEN Title(GetAttr(column.field_name).verbose_name)
    ELSE IF column.field_name = StrName THEN Title(MetaVerboseName)
    ELSE IF ~HasAttr(column.field_name) THEN Title(column.field_name)
    ELSE IF GetAttr(column.field_name).is_callable
            /\ Len(GetAttr(column.field_name).short_description) > 0
         THEN GetAttr(column.field_name).short_description
    ELSE Title(Replace(column.field_name, "_", " "))

\* The longest list_display that is enumerated.
MaxDisplay == 2

\* The list_display settings: up to MaxDisplay names.
Displays == UNION {[1..n -> FieldNames] : n \in 0..MaxDisplay}

\* The list_display of the sort and filter pages: NumColumns sortable
\* columns.
SortableDisplay == [i \in ColumnIds |-> FilterField]

----------------------------------------------------------------------------
(* The state machine.  A page is rendered for a request's query          *)
(* parameters; the user clicks one of its links; the link's query string  *)
(* is the next request, for which the page is rendered anew.  `last` is   *)
(* the link clicked on the current page: the operation, its column id or  *)
(* option index, the parameters it was computed from and the query string *)
(* it returned.                                                           *)

VARIABLES query_params, last, list_display, smart_list

vars == <<query_params, last, list_display, smart_list>>

NoClick ==
    [op |-> "none", arg |-> 0, before |-> <<>>, url |-> <<>>, after |-> <<>>]

\* The page of the sort and filter links: its columns are built.
SortablePage ==
    /\ list_display = SortableDisplay
    /\ smart_list = SmartList(list_display, query_params)

Init ==
    /\ query_params \in {other \o sort : other \in OtherParams,
                                          sort \in SortParams}
    /\ last = NoClick
    /\ SortablePage

\* Mutant: `query` is the mapping itself ("query = self.query_params"), so
\* what is encoded is what the mapping holds afterwards.
query_params_after_Aliased(params, url) ==
    IF url = Error THEN params ELSE ParseQuery(url)

\* self.query_params after get_url_with_query_params built url from it:
\* "query = dict(self.query_params).copy()" makes `query` a new dict, and
\* the collapsing, the update and the deletions are done on `query`.
query_params_after(params, url) == params

\* The link is computed from the rendered request; when it was computed
\* (no exception), following it makes its query string the next request.
Click(op, arg, url) ==
    /\ last = NoClick
    /\ last' = [op |-> op, arg |-> arg, before |-> query_params, url |-> url,
                after |-> query_params_after(query_params, url)]
    /\ query_params' = IF url = Error THEN query_params ELSE ParseQuery(url)
    /\ UNCHANGED <<list_display, smart_list>>

AddSortBy(c) == Click("add", c, get_add_sort_by(query_params, c))

RemoveSortBy(c) == Click("remove", c, get_remove_sort_by(query_params, c))

ReverseSortBy(c) == Click("reverse", c, get_reverse_sort_by(query_params, c))

FilterClick(i) == Click("filter", i, get_url(get_values[i], query_params))

\* The smart_list tag builds a fresh SmartList for the request: nothing of
\* the previous page is kept.
Render ==
    /\ last # NoClick
    /\ last' = NoClick
    /\ smart_list' = SmartList(list_display, query_params)
    /\ UNCHANGED <<query_params, list_display>>

Next ==
    \/ \E c \in ColumnIds : AddSortBy(c)
    \/ \E c \in ColumnIds : RemoveSortBy(c)
    \/ \E c \in ColumnIds : ReverseSortBy(c)
    \/ \E i \in 1..Len(get_values) : FilterClick(i)
    \/ Render

Spec == Init /\ [][Next]_vars

\* A first request without sorting: the sort parameter absent or empty.
InitClicks ==
    /\ query_params \in {<<>>, <<<<OrderingParam, PyString(<<>>)>>>>}
    /\ last = NoClick
    /\ SortablePage

\* Clicks on the column headers: add_sort_by on any column, remove_sort_by
\* and reverse_sort_by on a column that is currently sorted.
NextClicks ==
    \/ \E c \in ColumnIds : AddSortBy(c)
    \/ \E c \in ColumnIds : is_ordered(query_params, c) /\ RemoveSortBy(c)
    \/ \E c \in ColumnIds : is_ordered(query_params, c) /\ ReverseSortBy(c)
    \/ Render

SpecClicks == InitClicks /\ [][NextClicks]_vars

\* The requests one header click leads to from a request.
ClickSuccessors(params) ==
    LET sorted == {c \in ColumnIds : is_ordered(params, c)}
        urls == {get_add_sort_by(params, c) : c \in ColumnIds}
                \cup {get_remove_sort_by(params, c) : c \in sorted}
                \cup {get_reverse_sort_by(params, c) : c \in sorted}
    IN  {ParseQuery(url) : url \in urls \ {Error}}

\* The sort token of a request is the token of a sort list (or empty).
TokenIsSortList(params) ==
    LET q == query_order(params)
    IN  \/ q.t = "none"
        \/ /\ q.t = "str"
           /\ LET parts == Split(q.v, ".")
                  ids == [i \in 1..Len(parts) |-> RemoveChar(parts[i], "-")]
              IN  \/ Len(q.v) = 0
                  \/ /\ \A i \in 1..Len(parts) :
                            /\ IsIntLiteral(ids[i])
                            /\ StrToInt(ids[i]) \in ColumnIds
                            /\ parts[i] \in {ids[i], <<"-">> \o ids[i]}
                     /\ \A i, j \in 1..Len(parts) :
                            i # j => ids[i] # ids[j]

\* The requests reachable by header clicks: `seen` are those found so far,
\* `fresh` those among them whose clicks are still to be followed.  Clicks
\* are followed from the requests whose token is a sort list.
RECURSIVE ReachableFrom(_, _)
ReachableFrom(seen, fresh) ==
    LET found == UNION {ClickSuccessors(p) :
                          p \in {q \in fresh : TokenIsSortList(q)}}
    IN  IF found \subseteq seen THEN seen
        ELSE ReachableFrom(seen \cup found, found \ seen)

\* The requests of the set R from which header clicks lead into the set S.
RECURSIVE LeadingTo(_, _)
LeadingTo(S, R) ==
    LET more == {p \in R \ S : ClickSuccessors(p) \cap S # {}}
    IN  IF more = {} THEN S ELSE LeadingTo(S \cup more, R)

\* The list view of a request is built for a list_display setting.
NotBuilt == [raised |-> "", columns |-> <<>>]

InitColumns ==
    /\ query_params \in {<<>>, <<<<OrderingParam, PyString(<<"-", "1">>)>>>>}
    /\ last = NoClick
    /\ list_display \in Displays
    /\ smart_list = NotBuilt

\* "smart_list_instance = SmartList(...)"
Construct ==
    /\ smart_list = NotBuilt
    /\ smart_list' = SmartList(list_display, query_params)
    /\ UNCHANGED <<query_params, last, list_display>>

NextColumns == Construct

SpecColumns == InitColumns /\ [][NextColumns]_vars

----------------------------------------------------------------------------
(* Vocabulary of the properties: sort tokens read as sort lists *)

\* Stands for a token that is the token of no sort list.
Malformed == <<<<0, FALSE>>>>

\* The elements of a token read as <<column id, descending>> pairs; a
\* segment that is no number reads as column 0.
ElementsOf(token) ==
    LET parts == Split(token, ".")
    IN  IF Len(token) = 0 THEN <<>>
        ELSE [i \in 1..Len(parts) |->
                LET digits == RemoveChar(parts[i], "-")
                IN  <<IF IsIntLiteral(digits) THEN StrToInt(digits) ELSE 0,
                      StartsWith(parts[i], "-")>>]

\* The sort list a token encodes: the list over distinct column ids whose
\* token it is.
SortListOf(token) ==
    LET l == ElementsOf(token)
    IN  IF /\ \A i \in 1..Len(l) : l[i][1] \in ColumnIds
           /\ \A i, j \in 1..Len(l) : i # j => l[i][1] # l[j][1]
           /\ TokenOf(l) = token
        THEN l
        ELSE Malformed

\* The sort token of a request: empty when the parameter is absent.
Token(params) ==
    IF DictHas(params, OrderingParam) THEN DictGet(params, OrderingParam).v
    ELSE <<>>

HasColumn(l, c) == \E i \in 1..Len(l) : l[i][1] = c

\* The sort list without column c, the rest in order with their signs.
Without(l, c) ==
    LET Keep(e) == e[1] # c
    IN  SelectSeq(l, Keep)

\* The sort list with the direction of column c toggled in place.
Toggled(l, c) ==
    [i \in 1..Len(l) |-> IF l[i][1] = c THEN <<c, ~l[i][2]>> ELSE l[i]]

\* The sort lists before and after the clicked link.
ListBefore == SortListOf(Token(last.before))

ListNow == SortListOf(Token(query_params))

\* The clicked link was computed (the operation returned a query string).
Returned(op) == last.op = op /\ last.url # Error

\* The only exception a click on a well-formed request raises: the codec's
\* value[0] on an empty value list.
RaisedOnlyByCodec == last.url = Error => CollapseFails(last.before)

----------------------------------------------------------------------------
(* Properties *)

\* C1: on a well-formed sort token T and any column id C, reverse_sort_by
\* for C applied to T and then again to the resulting token yields exactly
\* the original token T.
C1_ReverseTwiceIsIdentity ==
    Returned("reverse") =>
        LET again == get_reverse_sort_by(query_params, last.arg)
        IN  /\ again # Error
            /\ Token(ParseQuery(again)) = Token(last.before)

C1_Witness ==
    /\ Returned("reverse")
    /\ Len(ListBefore) > 1
    /\ HasColumn(ListBefore, last.arg)
    /\ Token(query_params) # Token(last.before)
    /\ Token(ParseQuery(get_reverse_sort_by(query_params, last.arg)))
           = Token(last.before)

\* C2: add_sort_by for a column C that is in a multi-column token but not
\* its first element yields C ascending first, whatever C's direction was,
\* followed by the other elements in their original order and signs.
C2_AddPromotesNonPrimary ==
    last.op = "add" =>
        LET before == ListBefore
        IN  (/\ Len(before) > 1
             /\ HasColumn(before, last.arg)
             /\ before[1][1] # last.arg)
            => /\ RaisedOnlyByCodec
               /\ last.url # Error =>
                    ListNow = <<<<last.arg, FALSE>>>>
                              \o Without(before, last.arg)

C2_Witness ==
    /\ Returned("add")
    /\ Token(last.before) = <<"2", ".", "-", "1">>
    /\ last.arg = 1
    /\ Token(query_params) = <<"1", ".", "2">>

\* C3: add_sort_by for the column C that is the primary (first) element of
\* the token, alone or among several, toggles C's direction in place and
\* leaves every other element, sign and position unchanged; its result
\* equals the result of reverse_sort_by for C.
C3_AddTogglesPrimary ==
    last.op = "add" =>
        LET before == ListBefore
        IN  (/\ Len(before) > 0
             /\ before[1][1] = last.arg)
            => /\ RaisedOnlyByCodec
               /\ last.url = get_reverse_sort_by(last.before, last.arg)
               /\ last.url # Error => ListNow = Toggled(before, last.arg)

C3_Witness ==
    /\ Returned("add")
    /\ Len(ListBefore) > 1
    /\ ListBefore[1] = <<last.arg, TRUE>>
    /\ ListNow[1] = <<last.arg, FALSE>>
    /\ Tail(ListNow) = Tail(ListBefore)

\* C4: add_sort_by for a column C that is not in the current token yields
\* C ascending followed by the whole old token unchanged when a non-empty
\* token exists, and the token C alone when the token is absent or empty.
C4_AddPrependsNewColumn ==
    last.op = "add" =>
        LET before == ListBefore
        IN  ~HasColumn(before, last.arg)
            => /\ RaisedOnlyByCodec
               /\ last.url # Error =>
                    /\ ListNow = <<<<last.arg, FALSE>>>> \o before
                    /\ Token(last.before) # <<>> =>
                         Token(query_params)
                             = TokenOf(<<<<last.arg, FALSE>>>>) \o <<".">>
                               \o Token(last.before)
                    /\ Token(last.before) = <<>> =>
                         Token(query_params)
                             = TokenOf(<<<<last.arg, FALSE>>>>)

C4_Witness ==
    /\ Returned("add")
    /\ ~DictHas(last.before, OrderingParam)
    /\ DictHas(query_params, OrderingParam)
    /\ ListNow = <<<<last.arg, FALSE>>>>

\* C5: remove_sort_by for a column C present in a well-formed token yields
\* the token made of exactly the old token's elements other than C, in
\* their original relative order and with their original signs.
C5_RemoveKeepsTheRest ==
    last.op = "remove" =>
        LET before == ListBefore
        IN  HasColumn(before, last.arg)
            => /\ RaisedOnlyByCodec
               /\ last.url # Error => ListNow = Without(before, last.arg)

C5_Witness ==
    /\ Returned("remove")
    /\ Len(ListBefore) > 2
    /\ ListBefore[2][1] = last.arg
    /\ ListBefore[3][2]
    /\ ListNow = <<ListBefore[1], ListBefore[3]>>

\* C6 as claimed: remove_sort_by on the only column of a single-column
\* token leaves an empty remainder and clears the sort parameter: its key
\* does not appear in the resulting query string.
C6_RemoveLastClearsKey ==
    (/\ Returned("remove")
     /\ Len(ListBefore) = 1
     /\ HasColumn(ListBefore, last.arg))
    => /\ Token(ParseQuery(last.url)) = <<>>
       /\ ~DictHas(ParseQuery(last.url), OrderingParam)

\* C6 as amended: remove_sort_by on the only column of a single-column
\* token leaves an empty remainder, and the sort parameter's key stays in
\* the resulting query string with the empty string as its value.
C6_RemoveLastKeepsEmptyKey ==
    last.op = "remove" =>
        LET before == ListBefore
            params == ParseQuery(last.url)
        IN  (Len(before) = 1 /\ HasColumn(before, last.arg))
            => /\ RaisedOnlyByCodec
               /\ last.url # Error =>
                    /\ DictHas(params, OrderingParam)
                    /\ PyEq(DictGet(params, OrderingParam), PyString(<<>>))

C6_Witness ==
    /\ Returned("remove")
    /\ ListBefore = <<<<last.arg, TRUE>>>>
    /\ DictHas(query_params, OrderingParam)
    /\ Token(query_params) = <<>>

\* C7: for a well-formed token T and a column C present in T, remove_sort_by
\* for C and then add_sort_by for C on the resulting request yields a token
\* over the same columns as T, with C as the primary column and all other
\* columns of T in their original relative order and directions.
C7_RemoveThenAddPromotes ==
    Returned("remove") =>
        LET before == ListBefore
            again == get_add_sort_by(query_params, last.arg)
            result == SortListOf(Token(ParseQuery(again)))
        IN  HasColumn(before, last.arg)
            => /\ again # Error
               /\ Len(result) = Len(before)
               /\ result[1][1] = last.arg
               /\ Tail(result) = Without(before, last.arg)

C7_Witness ==
    /\ Returned("remove")
    /\ Len(ListBefore) > 2
    /\ ListBefore[3] = <<last.arg, TRUE>>
    /\ SortListOf(Token(ParseQuery(get_add_sort_by(query_params, last.arg))))
           = <<<<last.arg, FALSE>>, ListBefore[1], ListBefore[2]>>

\* The option is active: is_active returns True (it does not raise).
Active(option, params) ==
    ~is_active_raises(option, params) /\ is_active(option, params)

\* The stored value of the option's parameter equals the option's value
\* as strings, a stored sequence standing for its first element.
EqualAsStrings(option, params) ==
    /\ DictHas(params, option.field_name)
    /\ ~is_active_raises(option, params)
    /\ PyStr(selected_value(option, params)) = PyStr(option.value)

\* C8 as claimed: a filter option is active exactly when the query
\* parameters hold the filter's parameter name with a value equal to the
\* option's value under string comparison; with {status: "2"} and choices
\* (1, Open), (2, Closed): All inactive, Open inactive, Closed active.
C8_ActiveIffEqualAsStrings ==
    \A i \in 2..Len(get_values) :
        Active(get_values[i], query_params)
            <=> EqualAsStrings(get_values[i], query_params)

\* C9: the "All" option of a filter is active if and only if the filter's
\* parameter name is absent from the current query parameters.
C9_AllActiveIffAbsent ==
    Active(get_values[1], query_params)
        <=> ~DictHas(query_params, FilterField)

C9_Witness ==
    /\ Returned("filter")
    /\ last.arg = 1
    /\ ~Active(get_values[1], last.before)
    /\ Active(get_values[1], query_params)
    /\ \A i \in 2..Len(get_values) : ~Active(get_values[i], query_params)

\* C10: the query string the codec builds holds no key whose override is
\* the "no value" sentinel; the link of a filter's "All" option omits the
\* filter's key instead of keeping it with an empty value.
C10_SentinelKeyOmitted ==
    /\ last = NoClick =>
          \A k \in DictKeys(query_params) \cup {OrderingParam, FilterField} :
              LET url == get_url_with_query_params(query_params, k, PyNone)
              IN  url # Error => ~DictHas(ParseQuery(url), k)
    /\ (Returned("filter") /\ get_values[last.arg].value.t = "none")
          => ~DictHas(ParseQuery(last.url), FilterField)

C10_Witness ==
    /\ Returned("filter")
    /\ get_values[last.arg].value.t = "none"
    /\ DictHas(last.before, FilterField)
    /\ DictHas(last.before, SearchParam)
    /\ DictKeys(ParseQuery(last.url)) = DictKeys(last.before) \ {FilterField}

\* The parameter a clicked link overrides: the sort parameter for the sort
\* operations, the filter's parameter for a filter option.
OwnParam == IF last.op = "filter" THEN FilterField ELSE OrderingParam

\* The value a stored value reads as after a click: itself, or its first
\* element when it is a sequence.
FirstValue(stored) ==
    IF stored.t = "list" THEN PyString(stored.v[1]) ELSE stored

\* C11: each key of the current mapping that is not named in the overrides
\* appears in the built query string with its current value, or with the
\* first element of its current value when that is a sequence; this holds
\* for every sort operation and every filter option link.
C11_OtherKeysPreserved ==
    (last.op # "none" /\ last.url # Error) =>
        LET params == ParseQuery(last.url)
        IN  \A i \in 1..Len(last.before) :
                last.before[i][1] # OwnParam =>
                    /\ DictHas(params, last.before[i][1])
                    /\ PyEq(DictGet(params, last.before[i][1]),
                            FirstValue(last.before[i][2]))

C11_Witness ==
    /\ Returned("reverse")
    /\ PyEq(DictGet(last.before, FilterField), PyList(<<<<"2">>, <<"1">>>>))
    /\ PyEq(DictGet(query_params, FilterField), PyString(<<"2">>))
    /\ PyEq(DictGet(query_params, SearchParam),
            PyString(<<"a", " ", "b", "&", "c">>))
    /\ Token(query_params) # Token(last.before)

\* C12 as claimed: the codec's build operation is total: for every mapping
\* whose values are strings or sequences of strings, an empty sequence
\* included, and every override, it returns a query string.
C12_BuildIsTotal ==
    \A k \in {OrderingParam, FilterField} :
        \A v \in {PyNone, PyString(<<"1">>)} :
            get_url_with_query_params(query_params, k, v) # Error

\* C15 as claimed: for every sort state, an absent or empty token included,
\* and every column id, is_reverse returns without failing, true iff the
\* token element matching the column id carries a leading "-" (so false
\* for an absent or empty token).
C15_IsReverseTotal ==
    \A c \in ColumnIds :
        /\ ~WalkFails(query_params)
        /\ is_reverse(query_params, c)
               <=> \E i \in 1..Len(ListNow) : ListNow[i] = <<c, TRUE>>

\* C18 as claimed: in the request reached by following a filter option's
\* link, exactly that option is active and every other option of the
\* filter is inactive.
C18_FollowedOptionIsTheActiveOne ==
    Returned("filter") =>
        \A i \in 1..Len(get_values) :
            Active(get_values[i], query_params) <=> i = last.arg

\* C16: starting from an absent or empty sort token, after any sequence of
\* clicks (add_sort_by on any column, remove_sort_by or reverse_sort_by on
\* a sorted column) the token is empty or a dot-separated list of elements,
\* each an optional single "-" and a column id >= 1, no id occurring twice.
C16_TokenStaysWellFormed ==
    LET l == ListNow
    IN  /\ l # Malformed
        /\ \A i \in 1..Len(l) : l[i][1] >= 1
        /\ \A i, j \in 1..Len(l) : i # j => l[i][1] # l[j][1]
        /\ Token(query_params) = TokenOf(l)

C16_Witness ==
    /\ Returned("add")
    /\ Len(ListBefore) = NumColumns
    /\ ListBefore[NumColumns] = <<last.arg, TRUE>>
    /\ ListBefore[1][2]
    /\ ListNow = <<<<last.arg, FALSE>>>> \o Without(ListBefore, last.arg)

\* The request has no sorted column: the sort parameter absent or empty.
IsUnsorted(params) == Len(Token(params)) = 0

\* The requests that carry a sort list's token.
SortedRequests ==
    {<<<<OrderingParam, PyString(TokenOf(l))>>>> : l \in SortLists}

\* C17: every ordered list of distinct column ids, each with a direction,
\* is reached from the empty sort token by a finite sequence of add,
\* reverse and remove clicks, and from every reachable token a sequence of
\* clicks leads back to a state with no sorted column.
C17_EverySortStateReachable ==
    (last = NoClick /\ IsUnsorted(query_params)) =>
        LET reached == ReachableFrom({query_params}, {query_params})
            unsorted == {p \in reached : IsUnsorted(p)}
        IN  /\ SortedRequests \subseteq reached
            /\ \A p \in reached : TokenIsSortList(p)
            /\ LeadingTo(unsorted, reached) = reached

C17_Witness ==
    /\ Returned("remove")
    /\ IsUnsorted(query_params)
    /\ Len(ListBefore) = 1
    /\ LET reached == ReachableFrom({query_params}, {query_params})
       IN  \A i \in 1..NumColumns :
               <<<<OrderingParam,
                   PyString(TokenOf([j \in 1..i |-> <<j, TRUE>>]))>>>>
                   \in reached

\* A display field that the list view must refuse: a name with a leading
\* underscore other than "__str__", or a callable flagged alters_data.
Offending(field) ==
    \/ StartsWith(field, "_") /\ field # StrName
    \/ /\ HasAttr(field)
       /\ GetAttr(field).is_callable
       /\ GetAttr(field).alters_data

\* C13: when any requested display field is offending, constructing the
\* list view fails with the configuration error and no list view is
\* produced, neither one without the offending column nor one with only
\* some of the columns.
C13_MisconfiguredColumnAborts ==
    (/\ smart_list # NotBuilt
     /\ \E i \in 1..Len(list_display) : Offending(list_display[i]))
        => /\ smart_list.raised = "SmartListException"
           /\ smart_list.columns = <<>>

C13_Witness ==
    /\ Len(list_display) = MaxDisplay
    /\ \A i \in 1..(MaxDisplay - 1) : ~Offending(list_display[i])
    /\ AltersData(list_display[MaxDisplay])
    /\ smart_list = [raised |-> "SmartListException", columns |-> <<>>]

\* The link of an operation computed from the mapping params.
LinkOf(op, arg, params) ==
    CASE op = "add" -> get_add_sort_by(params, arg)
      [] op = "remove" -> get_remove_sort_by(params, arg)
      [] op = "reverse" -> get_reverse_sort_by(params, arg)
      [] op = "filter" -> get_url(get_values[arg], params)

PlainName(field) ==
    /\ ~IsModelField(field)
    /\ field # StrName
    /\ ~(/\ HasAttr(field)
         /\ GetAttr(field).is_callable
         /\ Len(GetAttr(field).short_description) > 0)

\* C19: the title of a column whose field name maps to no declared
\* metadata and to no accessor with a short-description hint, also when it
\* matches no accessor at all, is the field name with every underscore
\* replaced by a space and then title-cased.
C19_PlainNameTitle ==
    \A i \in 1..Len(smart_list.columns) :
        LET column == smart_list.columns[i]
        IN  PlainName(column.field_name) =>
                get_title(column)
                    = Title(Replace(column.field_name, "_", " "))

====
